---- MODULE Spec2Model ----
(***************************************************************************)
(* Model of the Bots Dashboard API (src/main.py): three JSON documents     *)
(* (application_details, devops_details, infrastructure_details) that the  *)
(* request handlers load whole, change in memory and save whole.           *)
(*                                                                         *)
(* A handler is split at its file accesses: every load_json_file and every *)
(* save_json_file is one atomic step, and the computation on the handler's *)
(* private in-memory document between two file accesses is part of the     *)
(* step of the file access that precedes it.  FastAPI runs the (sync)      *)
(* handlers on a thread pool, so steps of different requests interleave.   *)
(*                                                                         *)
(* Strings that the code takes apart or builds (identifiers, application   *)
(* names) are sequences of one-character strings.                          *)
(*                                                                         *)
(* The three files exist and hold well-formed JSON: load_json_file returns *)
(* the stored document.  save_json_file replaces the stored document; in   *)
(* FaultSpec it may also fail, and then open() has failed and the file is  *)
(* as it was (a failure inside json.dump, which leaves a truncated file,   *)
(* is not modelled).  The collections start empty, with the environments   *)
(* "production" and "staging".                                             *)
(***************************************************************************)
EXTENDS Integers, Sequences, FiniteSets, TLC

(***************************************************************************)
(* Bounds of the model.                                                    *)
(***************************************************************************)
NumProcs == 2       \* request handlers that may be in flight together
MaxCalls == 4       \* handler invocations in one behaviour
MaxInfraReqs == 2   \* length of the infrastructure list of an onboard call
MaxOnboardCalls == 3  \* handler invocations in the specifications of onboard
MaxFindLen == 3      \* length of the record list find_app_by_id_or_name is given

Procs == 1..NumProcs

(***************************************************************************)
(* Strings.                                                                *)
(***************************************************************************)
Digits == <<"0", "1", "2", "3", "4", "5", "6", "7", "8", "9">>

DigitSet == {Digits[i] : i \in 1..10}

DigitValue(c) == CHOOSE v \in 0..9 : Digits[v + 1] = c

\* str.startswith
StartsWith(s, prefix) ==
    /\ Len(s) >= Len(prefix)
    /\ SubSeq(s, 1, Len(prefix)) = prefix

\* Positions of the separator in s.
SepPositions(s, sep) == {i \in 1..Len(s) : s[i] = sep}

\* str.split(sep) for a one-character separator.
RECURSIVE Split(_, _)
Split(s, sep) ==
    IF SepPositions(s, sep) = {}
    THEN <<s>>
    ELSE LET i == CHOOSE k \in SepPositions(s, sep) :
                      \A j \in SepPositions(s, sep) : k <= j
         IN <<SubSeq(s, 1, i - 1)>> \o Split(SubSeq(s, i + 1, Len(s)), sep)

\* int(s) raises ValueError unless s is a decimal numeral.  (Over the
\* alphabet of this model, letters, digits and "-", a numeral is a
\* non-empty string of digits.)
IsNumeral(s) == Len(s) > 0 /\ \A i \in 1..Len(s) : s[i] \in DigitSet

RECURSIVE ParseInt(_)
ParseInt(s) ==
    IF s = <<>> THEN 0
    ELSE 10 * ParseInt(SubSeq(s, 1, Len(s) - 1)) + DigitValue(s[Len(s)])

RECURSIVE ToDecimal(_)
ToDecimal(n) ==
    IF n < 10 THEN <<Digits[n + 1]>>
    ELSE ToDecimal(n \div 10) \o <<Digits[(n % 10) + 1]>>

RECURSIVE ZeroPad(_, _)
ZeroPad(s, width) == IF Len(s) >= width THEN s ELSE ZeroPad(<<"0">> \o s, width)

AppPrefix == <<"a", "p", "p", "-">>

\* f"app-{n:03d}"
FormatId(n) == AppPrefix \o ZeroPad(ToDecimal(n), 3)

Max(a, b) == IF a >= b THEN a ELSE b

(***************************************************************************)
(* Request values.                                                         *)
(***************************************************************************)
\* ApplicationRequest.applicationName is any str: ordinary names, and names
\* that have the shape of an identifier.
AppNames == {<<"a">>, FormatId(1), FormatId(2)}

DisplayNames == {"d1", "d2"}

\* The keys of infrastructure_details.json's "environments".
Environments == {"production", "staging"}

\* InfrastructureRequest.environment is any str.
RequestEnvironments == Environments \cup {"qa"}

RECURSIVE SeqsUpTo(_, _)
SeqsUpTo(S, n) ==
    IF n = 0 THEN {<<>>}
    ELSE LET shorter == SeqsUpTo(S, n - 1)
         IN shorter \cup {Append(s, x) : s \in {t \in shorter : Len(t) = n - 1}, x \in S}

\* Python's None, and a value that is not None, for an optional record.
None == <<>>
Some(rec) == <<rec>>

VARIABLES
    application_details,     \* application_details.json: "applications"
    devops_details,          \* devops_details.json: "applications"
    infrastructure_details,  \* infrastructure_details.json: "environments"
    pc,                      \* per handler: where it stands
    request,                 \* per handler: its arguments
    app,                     \* per handler: the local app (None or a record)
    data,                    \* per handler: the in-memory document it will save
    results,                 \* per handler: onboard's results
    response,                \* what the call that returned last returned
    history,                 \* the create_application calls, as they returned
    overlapped,              \* whether two create_application calls, each between
                             \* its load and its save, have been in flight together
    calls                    \* handler invocations so far

vars == <<application_details, devops_details, infrastructure_details,
          pc, request, app, data, results, response, history, overlapped, calls>>

files == <<application_details, devops_details, infrastructure_details>>

log == <<history, overlapped>>

\* A request: applicationName, payload (displayName or repositoryUrl, for the
\* other fields that are copied as they are), region, and the environments
\* of its infrastructure items.
NoRequest ==
    [applicationName |-> <<>>, payload |-> "", region |-> "", environments |-> <<>>]
NoResults == [devops |-> "", infrastructure |-> <<>>]
NoResponse == [op |-> "", status |-> 0]

Init ==
    /\ application_details = <<>>
    /\ devops_details = <<>>
    /\ infrastructure_details = [e \in Environments |-> <<>>]
    /\ pc = [p \in Procs |-> "idle"]
    /\ request = [p \in Procs |-> NoRequest]
    /\ app = [p \in Procs |-> None]
    /\ data = [p \in Procs |-> <<>>]
    /\ results = [p \in Procs |-> NoResults]
    /\ response = NoResponse
    /\ history = <<>>
    /\ overlapped = FALSE
    /\ calls = 0

(***************************************************************************)
(* Helpers of main.py.                                                     *)
(***************************************************************************)
\* Mutant of FindIndex: the comparison with applicationName is left out.
FindIndexByIdOnly(records, identifier) ==
    LET hits == {i \in 1..Len(records) : records[i].id = identifier}
    IN IF hits = {} THEN 0 ELSE CHOOSE i \in hits : \A j \in hits : i <= j

\* Mutant of FindIndex: the loop does not return at the first match, and the
\* last one is kept.
FindIndexLast(records, identifier) ==
    LET hits == {i \in 1..Len(records) :
                    \/ records[i].id = identifier
                    \/ records[i].applicationName = identifier}
    IN IF hits = {} THEN 0 ELSE CHOOSE i \in hits : \A j \in hits : i >= j

\* The index of the first record whose id or applicationName is the
\* identifier, 0 when there is none.
FindIndex(records, identifier) ==
    LET hits == {i \in 1..Len(records) :
                    \/ records[i].id = identifier
                    \/ records[i].applicationName = identifier}
    IN IF hits = {} THEN 0 ELSE CHOOSE i \in hits : \A j \in hits : i <= j

\* Mutant of find_app_by_id_or_name: when the loop ends without a match, the
\* loop variable (the last record) is returned in place of None.
find_app_or_last(records, identifier) ==
    IF FindIndex(records, identifier) # 0
    THEN Some(records[FindIndex(records, identifier)])
    ELSE IF records = <<>> THEN None ELSE Some(records[Len(records)])

find_app_by_id_or_name(records, identifier) ==
    IF FindIndex(records, identifier) = 0 THEN None
    ELSE Some(records[FindIndex(records, identifier)])

\* Mutant of save_json_file: the new record is appended to what is stored
\* instead of the document replacing it.
save_json_file_append(stored, document) ==
    IF document = <<>> THEN stored ELSE Append(stored, document[Len(document)])

\* What the file holds after save_json_file(filename, document).
save_json_file(stored, document) == document

\* Mutant of ScanMaxId: split("-")[0] is parsed instead of split("-")[1].
RECURSIVE ScanMaxIdFirstPart(_, _)
ScanMaxIdFirstPart(applications, max_id) ==
    IF applications = <<>> THEN max_id
    ELSE LET id == Head(applications).id
             parts == Split(id, "-")
         IN ScanMaxIdFirstPart(Tail(applications),
                      IF /\ StartsWith(id, AppPrefix)
                         /\ IsNumeral(parts[1])
                      THEN Max(max_id, ParseInt(parts[1]))
                      ELSE max_id)

\* The loop of generate_next_id.
RECURSIVE ScanMaxId(_, _)
ScanMaxId(applications, max_id) ==
    IF applications = <<>> THEN max_id
    ELSE LET id == Head(applications).id
             parts == Split(id, "-")
         IN ScanMaxId(Tail(applications),
                      IF /\ StartsWith(id, AppPrefix)
                         /\ Len(parts) >= 2
                         /\ IsNumeral(parts[2])
                      THEN Max(max_id, ParseInt(parts[2]))
                      ELSE max_id)

generate_next_id(applications) ==
    IF applications = <<>> THEN FormatId(1)
    ELSE FormatId(ScanMaxId(applications, 0) + 1)

(***************************************************************************)
(* A handler starts, and returns.                                          *)
(***************************************************************************)
CanStart(p) == pc[p] = "idle" /\ calls < MaxCalls

Return(p, resp) ==
    /\ pc' = [pc EXCEPT ![p] = "idle"]
    /\ request' = [request EXCEPT ![p] = NoRequest]
    /\ app' = [app EXCEPT ![p] = None]
    /\ data' = [data EXCEPT ![p] = <<>>]
    /\ results' = [results EXCEPT ![p] = NoResults]
    /\ response' = resp

(***************************************************************************)
(* GET /applications/{identifier}                                          *)
(***************************************************************************)
get_application_details(p, identifier) ==
    /\ CanStart(p)
    /\ calls' = calls + 1
    /\ LET found == find_app_by_id_or_name(application_details, identifier)
       IN Return(p, [op |-> "get_application_details",
                     identifier |-> identifier,
                     status |-> IF found = None THEN 404 ELSE 200,
                     body |-> found])
    /\ UNCHANGED <<files, log>>

(***************************************************************************)
(* POST /applications                                                      *)
(***************************************************************************)
NewApplication(applications, app_request) ==
    [id |-> generate_next_id(applications),
     applicationName |-> app_request.applicationName,
     displayName |-> app_request.payload]

\* Lines 114-139: load, the existence check, the new record appended to the
\* loaded document.
create_application_load(p, app_request) ==
    /\ CanStart(p)
    /\ calls' = calls + 1
    /\ LET loaded == application_details
           existing_app == find_app_by_id_or_name(loaded, app_request.applicationName)
       IN IF existing_app # None
          THEN /\ Return(p, [op |-> "create_application", status |-> 409])
               /\ history' = Append(history,
                      [applicationName |-> app_request.applicationName,
                       status |-> 409, application |-> None])
               /\ UNCHANGED overlapped
          ELSE /\ pc' = [pc EXCEPT ![p] = "create_application_save"]
               /\ request' = [request EXCEPT ![p] = app_request]
               /\ app' = [app EXCEPT ![p] = Some(NewApplication(loaded, app_request))]
               /\ data' = [data EXCEPT ![p] =
                      Append(loaded, NewApplication(loaded, app_request))]
               /\ overlapped' = (overlapped \/ \E q \in Procs \ {p} :
                                      pc[q] = "create_application_save")
               /\ UNCHANGED <<results, response, history>>
    /\ UNCHANGED files

\* Lines 142-147: save and return.
create_application_save(p) ==
    /\ pc[p] = "create_application_save"
    /\ application_details' = save_json_file(application_details, data[p])
    /\ Return(p, [op |-> "create_application", status |-> 200,
                  application |-> app[p][1]])
    /\ history' = Append(history,
           [applicationName |-> request[p].applicationName,
            status |-> 200, application |-> app[p]])
    /\ UNCHANGED <<devops_details, infrastructure_details, overlapped, calls>>

(***************************************************************************)
(* POST /devops                                                            *)
(***************************************************************************)
RepositoryUrls == {"r1"}

\* Mutant of NewDevOps: the record's id is taken from the request, not from
\* the application record.
NewDevOpsRequestId(found_app, applicationName, devops_request) ==
    [id |-> applicationName,
     applicationName |-> applicationName,
     repositoryUrl |-> devops_request.payload]

NewDevOps(found_app, applicationName, devops_request) ==
    [id |-> found_app.id,
     applicationName |-> applicationName,
     repositoryUrl |-> devops_request.payload]

\* Lines 162-165: the application must exist.
create_devops_load_app(p, devops_request) ==
    /\ CanStart(p)
    /\ calls' = calls + 1
    /\ LET found == find_app_by_id_or_name(application_details,
                                           devops_request.applicationName)
       IN IF found = None
          THEN Return(p, [op |-> "create_devops_details", status |-> 404])
          ELSE /\ pc' = [pc EXCEPT ![p] = "create_devops_load_devops"]
               /\ request' = [request EXCEPT ![p] = devops_request]
               /\ app' = [app EXCEPT ![p] = found]
               /\ UNCHANGED <<data, results, response>>
    /\ UNCHANGED <<files, log>>

\* Lines 168-186: load the DevOps document, the existence check, the append.
create_devops_load_devops(p) ==
    /\ pc[p] = "create_devops_load_devops"
    /\ LET devops_data == devops_details
           existing_devops == find_app_by_id_or_name(devops_data,
                                                     request[p].applicationName)
       IN IF existing_devops # None
          THEN Return(p, [op |-> "create_devops_details", status |-> 409])
          ELSE /\ pc' = [pc EXCEPT ![p] = "create_devops_save"]
               /\ data' = [data EXCEPT ![p] =
                      Append(devops_data,
                             NewDevOps(app[p][1], request[p].applicationName, request[p]))]
               /\ UNCHANGED <<request, app, results, response>>
    /\ UNCHANGED <<files, log, calls>>

\* Lines 189-194: save and return.
create_devops_save(p) ==
    /\ pc[p] = "create_devops_save"
    /\ devops_details' = save_json_file(devops_details, data[p])
    /\ Return(p, [op |-> "create_devops_details", status |-> 200,
                  devops |-> data[p][Len(data[p])]])
    /\ UNCHANGED <<application_details, infrastructure_details, log, calls>>

(***************************************************************************)
(* POST /infrastructure                                                    *)
(***************************************************************************)
Regions == {"g1"}

NewInfrastructure(found_app, applicationName, region) ==
    [id |-> found_app.id,
     applicationName |-> applicationName,
     region |-> region]

\* Mutant of existing_infra: the lookup is made in the collection of the
\* default environment, whatever the environment of the request.
existing_infra_production(infra_data, environment, applicationName) ==
    find_app_by_id_or_name(infra_data["production"], applicationName)

\* Lines 213 and 284: the record of the application in one environment's
\* collection of the in-memory document.
existing_infra(infra_data, environment, applicationName) ==
    find_app_by_id_or_name(infra_data[environment], applicationName)

\* Lines 200-203: the application must exist.
create_infrastructure_load_app(p, infra_request) ==
    /\ CanStart(p)
    /\ calls' = calls + 1
    /\ LET found == find_app_by_id_or_name(application_details,
                                           infra_request.applicationName)
       IN IF found = None
          THEN Return(p, [op |-> "create_infrastructure_details", status |-> 404])
          ELSE /\ pc' = [pc EXCEPT ![p] = "create_infrastructure_load_infra"]
               /\ request' = [request EXCEPT ![p] = infra_request]
               /\ app' = [app EXCEPT ![p] = found]
               /\ UNCHANGED <<data, results, response>>
    /\ UNCHANGED <<files, log>>

\* Mutant of create_infrastructure_load_infra: in place of the validation
\* of lines 209-210, an environment that is not a key is added to the
\* in-memory document with an empty collection (dict.setdefault).
create_infrastructure_load_infra_setdefault(p) ==
    /\ pc[p] = "create_infrastructure_load_infra"
    /\ LET environment == request[p].environments[1]
           infra_data ==
               [e \in DOMAIN infrastructure_details \cup {environment} |->
                   IF e \in DOMAIN infrastructure_details
                   THEN infrastructure_details[e] ELSE <<>>]
       IN IF existing_infra(infra_data, environment,
                            request[p].applicationName) # None
          THEN Return(p, [op |-> "create_infrastructure_details", status |-> 409])
          ELSE /\ pc' = [pc EXCEPT ![p] = "create_infrastructure_save"]
               /\ data' = [data EXCEPT ![p] =
                      [infra_data EXCEPT ![environment] =
                          Append(@, NewInfrastructure(app[p][1],
                                                      request[p].applicationName,
                                                      request[p].region))]]
               /\ UNCHANGED <<request, app, results, response>>
    /\ UNCHANGED <<files, log, calls>>

\* Lines 206-228: load the infrastructure document, validate the
\* environment, the existence check, the append.
create_infrastructure_load_infra(p) ==
    /\ pc[p] = "create_infrastructure_load_infra"
    /\ LET infra_data == infrastructure_details
           environment == request[p].environments[1]
       IN IF environment \notin DOMAIN infra_data
          THEN Return(p, [op |-> "create_infrastructure_details", status |-> 400])
          ELSE IF existing_infra(infra_data, environment,
                                 request[p].applicationName) # None
          THEN Return(p, [op |-> "create_infrastructure_details", status |-> 409])
          ELSE /\ pc' = [pc EXCEPT ![p] = "create_infrastructure_save"]
               /\ data' = [data EXCEPT ![p] =
                      [infra_data EXCEPT ![environment] =
                          Append(@, NewInfrastructure(app[p][1],
                                                      request[p].applicationName,
                                                      request[p].region))]]
               /\ UNCHANGED <<request, app, results, response>>
    /\ UNCHANGED <<files, log, calls>>

\* Lines 231-236: save and return.
create_infrastructure_save(p) ==
    /\ pc[p] = "create_infrastructure_save"
    /\ infrastructure_details' = save_json_file(infrastructure_details, data[p])
    /\ LET environment == request[p].environments[1]
       IN Return(p, [op |-> "create_infrastructure_details", status |-> 200,
                     environment |-> environment,
                     infrastructure |-> data[p][environment][Len(data[p][environment])]])
    /\ UNCHANGED <<application_details, devops_details, log, calls>>

(***************************************************************************)
(* POST /onboard/{application_name}                                        *)
(***************************************************************************)
\* Lines 274-312: the loop over infrastructure_requests, on the in-memory
\* infra_data.  acc is [infra_data, infrastructure]: the document and the
\* per-item results so far.
RECURSIVE OnboardInfrastructure(_, _, _, _, _)
OnboardInfrastructure(acc, environments, found_app, application_name, region) ==
    IF environments = <<>> THEN acc
    ELSE LET environment == Head(environments)
             step ==
               IF environment \notin DOMAIN acc.infra_data
               THEN [infra_data |-> acc.infra_data,
                     infrastructure |-> Append(acc.infrastructure,
                         [environment |-> environment, status |-> "error",
                          data |-> None])]
               ELSE IF existing_infra(acc.infra_data, environment,
                                      application_name) # None
               THEN [infra_data |-> acc.infra_data,
                     infrastructure |-> Append(acc.infrastructure,
                         [environment |-> environment, status |-> "exists",
                          data |-> None])]
               ELSE [infra_data |-> [acc.infra_data EXCEPT ![environment] =
                         Append(@, NewInfrastructure(found_app, application_name,
                                                     region))],
                     infrastructure |-> Append(acc.infrastructure,
                         [environment |-> environment, status |-> "created",
                          data |-> Some(NewInfrastructure(found_app, application_name,
                                                          region))])]
         IN OnboardInfrastructure(step, Tail(environments), found_app,
                                  application_name, region)

\* Lines 242-247: the application must exist.
onboard_load_app(p, onboard_request) ==
    /\ CanStart(p)
    /\ calls' = calls + 1
    /\ LET found == find_app_by_id_or_name(application_details,
                                           onboard_request.applicationName)
       IN IF found = None
          THEN Return(p, [op |-> "onboard_application_details", status |-> 404])
          ELSE /\ pc' = [pc EXCEPT ![p] = "onboard_load_devops"]
               /\ request' = [request EXCEPT ![p] = onboard_request]
               /\ app' = [app EXCEPT ![p] = found]
               /\ UNCHANGED <<data, results, response>>
    /\ UNCHANGED <<files, log>>

\* Lines 251-265: load the DevOps document; "exists", or the append.
onboard_load_devops(p) ==
    /\ pc[p] = "onboard_load_devops"
    /\ LET devops_data == devops_details
           existing_devops == find_app_by_id_or_name(devops_data,
                                                     request[p].applicationName)
       IN IF existing_devops # None
          THEN /\ results' = [results EXCEPT ![p].devops = "exists"]
               /\ pc' = [pc EXCEPT ![p] = "onboard_load_infra"]
               /\ UNCHANGED data
          ELSE /\ data' = [data EXCEPT ![p] =
                      Append(devops_data,
                             NewDevOps(app[p][1], request[p].applicationName, request[p]))]
               /\ pc' = [pc EXCEPT ![p] = "onboard_save_devops"]
               /\ UNCHANGED results
    /\ UNCHANGED <<files, request, app, response, log, calls>>

\* Lines 266-267: save the DevOps document.
onboard_save_devops(p) ==
    /\ pc[p] = "onboard_save_devops"
    /\ devops_details' = save_json_file(devops_details, data[p])
    /\ results' = [results EXCEPT ![p].devops = "created"]
    /\ data' = [data EXCEPT ![p] = <<>>]
    /\ pc' = [pc EXCEPT ![p] = "onboard_load_infra"]
    /\ UNCHANGED <<application_details, infrastructure_details, request, app,
                   response, log, calls>>

\* Lines 272-312: load the infrastructure document and run the loop.
onboard_load_infra(p) ==
    /\ pc[p] = "onboard_load_infra"
    /\ LET done == OnboardInfrastructure(
                       [infra_data |-> infrastructure_details, infrastructure |-> <<>>],
                       request[p].environments, app[p][1],
                       request[p].applicationName, request[p].region)
       IN /\ data' = [data EXCEPT ![p] = done.infra_data]
          /\ results' = [results EXCEPT ![p].infrastructure = done.infrastructure]
    /\ pc' = [pc EXCEPT ![p] = "onboard_save_infra"]
    /\ UNCHANGED <<files, request, app, response, log, calls>>

\* Lines 316-324: save the infrastructure document once and return.
onboard_save_infra(p) ==
    /\ pc[p] = "onboard_save_infra"
    /\ infrastructure_details' = save_json_file(infrastructure_details, data[p])
    /\ Return(p, [op |-> "onboard_application_details", status |-> 200,
                  message |-> "Application onboarding completed",
                  applicationName |-> request[p].applicationName,
                  results |-> results[p]])
    /\ UNCHANGED <<application_details, devops_details, log, calls>>

(***************************************************************************)
(* save_json_file raises HTTPException(500): lines 74-75.                  *)
(***************************************************************************)
SaveFailed(op) == [op |-> op, status |-> 500]

\* Line 142 raises: the exception leaves create_application.
create_application_save_fails(p) ==
    /\ pc[p] = "create_application_save"
    /\ Return(p, SaveFailed("create_application"))
    /\ history' = Append(history,
           [applicationName |-> request[p].applicationName,
            status |-> 500, application |-> None])
    /\ UNCHANGED <<files, overlapped, calls>>

\* Line 266 raises inside the try of lines 250-269: the except clause sets
\* the devops result to "error" and the handler goes on.
onboard_save_devops_fails(p) ==
    /\ pc[p] = "onboard_save_devops"
    /\ results' = [results EXCEPT ![p].devops = "error"]
    /\ data' = [data EXCEPT ![p] = <<>>]
    /\ pc' = [pc EXCEPT ![p] = "onboard_load_infra"]
    /\ UNCHANGED <<files, request, app, response, log, calls>>

PartialSuccess == "Partial success - DevOps saved but infrastructure save failed"

\* Line 316 raises: the except clause of lines 317-318 returns.
onboard_save_infra_fails(p) ==
    /\ pc[p] = "onboard_save_infra"
    /\ Return(p, [op |-> "onboard_application_details", status |-> 200,
                  message |-> PartialSuccess,
                  error |-> "Error saving infrastructure_details.json",
                  results |-> results[p]])
    /\ UNCHANGED <<files, log, calls>>

(***************************************************************************)
(* GET /infrastructure/app/{identifier}                                    *)
(***************************************************************************)
\* Mutant of infrastructure_by_environment: the records are compared by id
\* alone.
infrastructure_by_id(infra_data, identifier) ==
    [e \in {env_name \in DOMAIN infra_data :
               FindIndexByIdOnly(infra_data[env_name], identifier) # 0} |->
        infra_data[e][FindIndexByIdOnly(infra_data[e], identifier)]]

\* Lines 336-341: result, the mapping from the environments where
\* find_app_by_id_or_name finds a record to that record.
infrastructure_by_environment(infra_data, identifier) ==
    [e \in {env_name \in DOMAIN infra_data :
               find_app_by_id_or_name(infra_data[env_name], identifier) # None} |->
        find_app_by_id_or_name(infra_data[e], identifier)[1]]

get_app_infrastructure_all_environments(p, identifier) ==
    /\ CanStart(p)
    /\ calls' = calls + 1
    /\ LET result == infrastructure_by_environment(infrastructure_details, identifier)
       IN IF DOMAIN result = {}
          THEN Return(p, [op |-> "get_app_infrastructure_all_environments",
                          status |-> 404, detail |-> identifier])
          ELSE Return(p, [op |-> "get_app_infrastructure_all_environments",
                          status |-> 200,
                          applicationName |-> identifier,
                          environments |-> result])
    /\ UNCHANGED <<files, log>>

(***************************************************************************)
(* GET /profile/{identifier}?environment=...                               *)
(***************************************************************************)
\* The query parameter is Optional[str] = "production".
DefaultEnvironment == "production"

ProfileQueries == {None} \cup {Some(e) : e \in RequestEnvironments}

\* Lines 381-384: the application must exist.
get_complete_profile_load_app(p, identifier, query) ==
    /\ CanStart(p)
    /\ calls' = calls + 1
    /\ LET environment == IF query = None THEN DefaultEnvironment ELSE query[1]
           app_details == find_app_by_id_or_name(application_details, identifier)
       IN IF app_details = None
          THEN Return(p, [op |-> "get_complete_profile", status |-> 404])
          ELSE /\ pc' = [pc EXCEPT ![p] = "get_complete_profile_load_devops"]
               /\ request' = [request EXCEPT ![p] =
                      [NoRequest EXCEPT !.applicationName = identifier,
                                        !.environments = <<environment>>]]
               /\ app' = [app EXCEPT ![p] = app_details]
               /\ UNCHANGED <<data, results, response>>
    /\ UNCHANGED <<files, log>>

\* Lines 387-388: devops_details, None or the record found.
get_complete_profile_load_devops(p) ==
    /\ pc[p] = "get_complete_profile_load_devops"
    /\ data' = [data EXCEPT ![p] =
           find_app_by_id_or_name(devops_details, request[p].applicationName)]
    /\ pc' = [pc EXCEPT ![p] = "get_complete_profile_load_infra"]
    /\ UNCHANGED <<files, request, app, results, response, log, calls>>

\* Mutant of infra_details: the record is looked up in the collection of the
\* default environment, whatever the environment asked for.
infra_details_default(infra_data, environment, identifier) ==
    find_app_by_id_or_name(infra_data[DefaultEnvironment], identifier)

\* Lines 392-394: infra_details.
infra_details(infra_data, environment, identifier) ==
    IF environment \in DOMAIN infra_data
    THEN find_app_by_id_or_name(infra_data[environment], identifier)
    ELSE None

\* Lines 391-401: load the infrastructure document and return the profile.
get_complete_profile_load_infra(p) ==
    /\ pc[p] = "get_complete_profile_load_infra"
    /\ Return(p, [op |-> "get_complete_profile", status |-> 200,
                  application |-> app[p][1],
                  devops |-> data[p],
                  infrastructure |->
                      infra_details(infrastructure_details,
                                    request[p].environments[1],
                                    request[p].applicationName),
                  environment |-> request[p].environments[1]])
    /\ UNCHANGED <<files, log, calls>>

(***************************************************************************)
(* The requests a client may send.                                         *)
(***************************************************************************)
Identifiers == AppNames

ApplicationRequests ==
    [applicationName : AppNames, payload : DisplayNames, region : {""},
     environments : {<<>>}]

DevOpsRequests ==
    [applicationName : AppNames, payload : RepositoryUrls, region : {""},
     environments : {<<>>}]

InfrastructureRequests ==
    [applicationName : AppNames, payload : {""}, region : Regions,
     environments : {<<e>> : e \in RequestEnvironments}]

\* application_name, devops_request.repositoryUrl, and the environments of
\* infrastructure_requests (the applicationName fields of the two bodies are
\* not read).
OnboardRequests ==
    [applicationName : AppNames, payload : RepositoryUrls, region : Regions,
     environments : SeqsUpTo(RequestEnvironments, MaxInfraReqs)]

(***************************************************************************)
(* The handlers, by the registry they belong to.                           *)
(***************************************************************************)
ApplicationHandlers(p) ==
    \/ \E identifier \in Identifiers : get_application_details(p, identifier)
    \/ \E app_request \in ApplicationRequests : create_application_load(p, app_request)
    \/ create_application_save(p)

DevOpsHandlers(p) ==
    \/ \E devops_request \in DevOpsRequests : create_devops_load_app(p, devops_request)
    \/ create_devops_load_devops(p)
    \/ create_devops_save(p)

InfrastructureHandlers(p) ==
    \/ \E infra_request \in InfrastructureRequests :
           create_infrastructure_load_app(p, infra_request)
    \/ create_infrastructure_load_infra(p)
    \/ create_infrastructure_save(p)

OnboardHandlers(p) ==
    \/ \E onboard_request \in OnboardRequests : onboard_load_app(p, onboard_request)
    \/ onboard_load_devops(p)
    \/ onboard_save_devops(p)
    \/ onboard_load_infra(p)
    \/ onboard_save_infra(p)

Handler(p) ==
    \/ ApplicationHandlers(p)
    \/ DevOpsHandlers(p)
    \/ InfrastructureHandlers(p)
    \/ OnboardHandlers(p)

\* Requests are served concurrently: the steps of the handlers interleave.
Next == \E p \in Procs : Handler(p)

Spec == Init /\ [][Next]_vars

\* Requests are served one at a time: one handler runs each call to its end.
SeqNext == Handler(1)

SeqSpec == Init /\ [][SeqNext]_vars

\* Concurrent requests to the Application Registry alone.
AppNext == \E p \in Procs : ApplicationHandlers(p)

AppSpec == Init /\ [][AppNext]_vars

\* Concurrent create requests to the three registries.
CreateNext ==
    \E p \in Procs :
        \/ ApplicationHandlers(p)
        \/ DevOpsHandlers(p)
        \/ InfrastructureHandlers(p)

CreateSpec == Init /\ [][CreateNext]_vars

\* Concurrent requests that write the infrastructure document.
InfraNext ==
    /\ \E p \in Procs :
           \/ ApplicationHandlers(p)
           \/ InfrastructureHandlers(p)
           \/ OnboardHandlers(p)
    /\ calls' <= MaxOnboardCalls

InfraSpec == Init /\ [][InfraNext]_vars

\* The handlers that read across the registries.
ReadHandlers(p) ==
    \/ \E identifier \in Identifiers :
           get_app_infrastructure_all_environments(p, identifier)
    \/ \E identifier \in Identifiers : \E query \in ProfileQueries :
           get_complete_profile_load_app(p, identifier, query)
    \/ get_complete_profile_load_devops(p)
    \/ get_complete_profile_load_infra(p)

\* Create, onboard and read requests, served one at a time.
ReadNext == Handler(1) \/ ReadHandlers(1)

ReadSpec == Init /\ [][ReadNext]_vars

\* The saves of create_application and of onboard that fail.
FaultHandlers(p) ==
    \/ create_application_save_fails(p)
    \/ onboard_save_devops_fails(p)
    \/ onboard_save_infra_fails(p)

\* Applications are created and onboarded, one request at a time, and a
\* save may fail.
FaultNext ==
    /\ \/ ApplicationHandlers(1)
       \/ OnboardHandlers(1)
       \/ FaultHandlers(1)
    /\ calls' <= MaxOnboardCalls

FaultSpec == Init /\ [][FaultNext]_vars

\* find_app_by_id_or_name on any list of records: the application document
\* holds any records with an id and an applicationName, unique or not, and
\* GET /applications/{identifier} looks the identifier up in it.
FindRecords ==
    [id : {FormatId(1), FormatId(2)}, applicationName : AppNames,
     displayName : {"d1"}]

FindInit ==
    /\ application_details \in SeqsUpTo(FindRecords, MaxFindLen)
    /\ devops_details = <<>>
    /\ infrastructure_details = [e \in Environments |-> <<>>]
    /\ pc = [p \in Procs |-> "idle"]
    /\ request = [p \in Procs |-> NoRequest]
    /\ app = [p \in Procs |-> None]
    /\ data = [p \in Procs |-> <<>>]
    /\ results = [p \in Procs |-> NoResults]
    /\ response = NoResponse
    /\ history = <<>>
    /\ overlapped = FALSE
    /\ calls = 0

FindNext == \E identifier \in Identifiers : get_application_details(1, identifier)

FindSpec == FindInit /\ [][FindNext]_vars

(***************************************************************************)
(* Properties.                                                             *)
(***************************************************************************)
\* The create_application calls that returned a record, by their place in
\* history.
Created == {k \in 1..Len(history) : history[k].status = 200}

CreatedRecord(k) == history[k].application[1]

Contains(records, rec) == \E i \in 1..Len(records) : records[i] = rec

\* C1: in every reachable state of the persisted application collection, no
\* two records have the same applicationName, whatever the interleaving of
\* the load, check and save steps of the create-application calls.
C1_UniqueApplicationNames ==
    \A i, j \in 1..Len(application_details) :
        i # j => application_details[i].applicationName
                     # application_details[j].applicationName

\* Two creates of one name raced, both returned a record, and the collection
\* that was saved holds two applications.
C1_Witness ==
    /\ \E i, j \in Created :
          /\ i # j
          /\ history[i].applicationName = history[j].applicationName
    /\ Len(application_details) >= 2

\* C9: in every reachable state of the persisted Application collection, no
\* two application records share an identifier, whatever the interleaving of
\* the load, id-generation and save steps of concurrent creates.
C9_UniqueApplicationIds ==
    \A i, j \in 1..Len(application_details) :
        i # j => application_details[i].id # application_details[j].id

\* Two creates returned the same identifier, and the collection saved later
\* holds two applications.
C9_Witness ==
    /\ \E i, j \in Created :
          /\ i # j
          /\ CreatedRecord(i).id = CreatedRecord(j).id
    /\ Len(application_details) >= 2

\* The collection a handler about to save had loaded.
Loaded(p) == SubSeq(data[p], 1, Len(data[p]) - 1)

\* C10: identifier generation is not collision-proof under concurrency.  Two
\* create-application calls that loaded the same collection before either
\* saved carry the same identifier, and of two calls with distinct names that
\* returned the same identifier the persisted collection never holds both
\* records: the last writer's save drops the other's.
C10_CollisionLastWriterWins ==
    /\ \A p, q \in Procs :
          /\ p # q
          /\ pc[p] = "create_application_save"
          /\ pc[q] = "create_application_save"
          /\ Loaded(p) = Loaded(q)
          => app[p][1].id = app[q][1].id
    /\ \A i, j \in Created :
          /\ i # j
          /\ history[i].applicationName # history[j].applicationName
          /\ CreatedRecord(i).id = CreatedRecord(j).id
          => ~ /\ Contains(application_details, CreatedRecord(i))
               /\ Contains(application_details, CreatedRecord(j))

\* The interleaving of the claim: two calls with distinct names both returned
\* success with the same identifier, and only the record of the one that
\* saved last is persisted.
C10_Witness ==
    \E i, j \in Created :
        /\ i < j
        /\ history[i].applicationName # history[j].applicationName
        /\ CreatedRecord(i).id = CreatedRecord(j).id
        /\ application_details = <<CreatedRecord(j)>>

\* C2: when create-application calls run one at a time with pairwise
\* distinct application names, every call returns an identifier and the k-th
\* returned identifier is "app-" followed by k zero-padded to 3 digits.
C2_SequentialIdentifiers ==
    (\A i, j \in 1..Len(history) :
        i # j => history[i].applicationName # history[j].applicationName)
    => \A k \in 1..Len(history) :
           /\ history[k].status = 200
           /\ CreatedRecord(k).id = FormatId(k)

\* C3: get-application called with the identifier a create returned, or with
\* the name of the application it created, returns the record that the
\* create returned.
C3_RoundTrip ==
    response.op = "get_application_details"
    => \A k \in Created :
           \/ response.identifier = CreatedRecord(k).id
           \/ response.identifier = CreatedRecord(k).applicationName
           => /\ response.status = 200
              /\ response.body = Some(CreatedRecord(k))

\* The records of a collection that carry the identifier id.
WithId(records, id) == {i \in 1..Len(records) : records[i].id = id}

\* C4: for every application record there is at most one record in the DevOps
\* collection whose id is that application's identifier.
C4_OneDevOpsPerApplication ==
    \A a \in 1..Len(application_details) :
        Cardinality(WithId(devops_details, application_details[a].id)) <= 1

\* C5: for every application and every environment there is at most one
\* Infrastructure record in that environment's collection whose id is that
\* application's identifier.
C5_OneInfrastructurePerEnvironment ==
    \A a \in 1..Len(application_details) :
        \A e \in DOMAIN infrastructure_details :
            Cardinality(WithId(infrastructure_details[e],
                               application_details[a].id)) <= 1

ApplicationNamesStored ==
    {application_details[i].applicationName : i \in 1..Len(application_details)}

\* C7: the applicationName of every persisted DevOps record and of every
\* persisted Infrastructure record is the applicationName of some record of
\* the persisted Application collection.
C7_ReferentialIntegrityByName ==
    /\ \A i \in 1..Len(devops_details) :
          devops_details[i].applicationName \in ApplicationNamesStored
    /\ \A e \in DOMAIN infrastructure_details :
          \A i \in 1..Len(infrastructure_details[e]) :
              infrastructure_details[e][i].applicationName \in ApplicationNamesStored

\* C6: no two Infrastructure records within the same environment's persisted
\* collection have the same applicationName, whatever the interleaving of
\* create-infrastructure and onboard calls, and also when one onboard call
\* names the same environment more than once.
C6_UniqueNamesPerEnvironment ==
    \A e \in DOMAIN infrastructure_details :
        \A i, j \in 1..Len(infrastructure_details[e]) :
            i # j => infrastructure_details[e][i].applicationName
                         # infrastructure_details[e][j].applicationName

\* An onboard call that named one environment twice has returned, with the
\* first item created and the second found to exist, and that environment's
\* collection holds the record.
C6_Witness ==
    /\ response.op = "onboard_application_details"
    /\ response.status = 200
    /\ \E e \in DOMAIN infrastructure_details :
          /\ Len(response.results.infrastructure) = 2
          /\ response.results.infrastructure[1].environment = e
          /\ response.results.infrastructure[1].status = "created"
          /\ response.results.infrastructure[2].environment = e
          /\ response.results.infrastructure[2].status = "exists"
          /\ infrastructure_details[e] # <<>>

\* Every DevOps and Infrastructure record whose applicationName is that of an
\* application record carries that application record's id.
IdentifierAgreement ==
    \A a \in 1..Len(application_details) :
        /\ \A i \in 1..Len(devops_details) :
              devops_details[i].applicationName
                  = application_details[a].applicationName
              => devops_details[i].id = application_details[a].id
        /\ \A e \in DOMAIN infrastructure_details :
              \A i \in 1..Len(infrastructure_details[e]) :
                  infrastructure_details[e][i].applicationName
                      = application_details[a].applicationName
                  => infrastructure_details[e][i].id = application_details[a].id

\* C8 as stated: identifier agreement holds in every reachable state,
\* including under interleaved create operations on the Application
\* collection.
C8_IdentifierAgreement == IdentifierAgreement

\* C8 as amended: identifier agreement holds in every state reached without
\* two create-application calls having been in flight together (each between
\* its load and its save); create-devops and create-infrastructure calls may
\* interleave freely.
C8_IdentifierAgreementWithoutOverlap == ~overlapped => IdentifierAgreement

\* No two create-application calls overlapped, and a create-devops and a
\* create-infrastructure have stored records for a stored application.
C8_Witness ==
    /\ ~overlapped
    /\ \E a \in 1..Len(application_details) :
          /\ \E i \in 1..Len(devops_details) :
                devops_details[i].applicationName
                    = application_details[a].applicationName
          /\ \E e \in DOMAIN infrastructure_details :
                \E i \in 1..Len(infrastructure_details[e]) :
                    infrastructure_details[e][i].applicationName
                        = application_details[a].applicationName

\* C11: a create-application whose applicationName is the applicationName of
\* a record of the persisted collection returns 409 in the step that loads
\* the collection: nothing is saved, and the call yields no record and so
\* no new identifier.
C11_DuplicateNameConflict ==
    [][\A p \in Procs : \A app_request \in ApplicationRequests :
          (/\ create_application_load(p, app_request)
           /\ app_request.applicationName \in ApplicationNamesStored)
          => /\ response' = [op |-> "create_application", status |-> 409]
             /\ pc'[p] = "idle"
             /\ application_details' = application_details
             /\ history'[Len(history')].application = None]_vars

\* A create-application has returned 409 for a name that a stored record
\* carries as its applicationName.
C11_Witness ==
    /\ response = [op |-> "create_application", status |-> 409]
    /\ history # <<>>
    /\ history[Len(history)].status = 409
    /\ history[Len(history)].applicationName \in ApplicationNamesStored

\* No record of the persisted Application collection has name as its id or
\* as its applicationName.
NoApplicationMatches(name) ==
    \A i \in 1..Len(application_details) :
        /\ application_details[i].id # name
        /\ application_details[i].applicationName # name

NotFound(op) == [op |-> op, status |-> 404]

\* C12: when no record of the Application collection matches the given
\* application name, create-devops, create-infrastructure and onboard return
\* 404 in their first step and the three persisted collections are the same
\* after it; onboard's call is over with no devops and no per-item result.
C12_NotFoundLeavesCollections ==
    [][\A p \in Procs :
          /\ \A devops_request \in DevOpsRequests :
                (/\ create_devops_load_app(p, devops_request)
                 /\ NoApplicationMatches(devops_request.applicationName))
                => /\ response' = NotFound("create_devops_details")
                   /\ pc'[p] = "idle"
                   /\ UNCHANGED files
          /\ \A infra_request \in InfrastructureRequests :
                (/\ create_infrastructure_load_app(p, infra_request)
                 /\ NoApplicationMatches(infra_request.applicationName))
                => /\ response' = NotFound("create_infrastructure_details")
                   /\ pc'[p] = "idle"
                   /\ UNCHANGED files
          /\ \A onboard_request \in OnboardRequests :
                (/\ onboard_load_app(p, onboard_request)
                 /\ NoApplicationMatches(onboard_request.applicationName))
                => /\ response' = NotFound("onboard_application_details")
                   /\ pc'[p] = "idle"
                   /\ results'[p] = NoResults
                   /\ UNCHANGED files]_vars

\* An onboard call has returned 404 while the Application and the DevOps
\* collections hold records (of other applications).
C12_Witness ==
    /\ response = NotFound("onboard_application_details")
    /\ application_details # <<>>
    /\ devops_details # <<>>

\* C13: a create-infrastructure for an existing application whose
\* environment is not a key of the persisted environments mapping returns
\* 400 in the step that loads the infrastructure document, and the document
\* is the same after it; and no step of any handler changes the set of
\* environment names.
C13_InvalidEnvironmentRejected ==
    [][/\ DOMAIN infrastructure_details' = DOMAIN infrastructure_details
       /\ \A p \in Procs :
             (/\ create_infrastructure_load_infra(p)
              /\ request[p].environments[1] \notin DOMAIN infrastructure_details)
             => /\ response' = [op |-> "create_infrastructure_details",
                                status |-> 400]
                /\ pc'[p] = "idle"
                /\ infrastructure_details' = infrastructure_details]_vars

\* A create-infrastructure has returned 400 while an environment holds a
\* record.
C13_Witness ==
    /\ response = [op |-> "create_infrastructure_details", status |-> 400]
    /\ \E e \in DOMAIN infrastructure_details : infrastructure_details[e] # <<>>

\* The records of one environment's persisted collection that carry the id.
InfraRecordsOf(environment, id) ==
    WithId(infrastructure_details[environment], id)

\* C14: when an onboard call on an existing application returns normally,
\* whatever its devops outcome, its result holds one infrastructure outcome
\* per input request, in input order: "error" for an environment that is
\* not a key, "exists" when the application (the record found at the start
\* of the call) already has a record in that environment, one appended
\* earlier in the same call included, "created" otherwise; and every record
\* reported as created is in the persisted collection of its environment.
C14_OnboardOutcomes ==
    [][\A p \in Procs :
          (pc[p] = "onboard_save_infra" /\ onboard_save_infra(p))
          => LET envs == request[p].environments
                 outcomes == response'.results.infrastructure
                 expected(k) ==
                     IF envs[k] \notin DOMAIN infrastructure_details
                     THEN "error"
                     ELSE IF \/ InfraRecordsOf(envs[k], app[p][1].id) # {}
                             \/ \E j \in 1..(k - 1) : envs[j] = envs[k]
                     THEN "exists"
                     ELSE "created"
             IN /\ Len(outcomes) = Len(envs)
                /\ \A k \in 1..Len(envs) :
                      /\ outcomes[k].environment = envs[k]
                      /\ outcomes[k].status = expected(k)
                      /\ outcomes[k].status = "created"
                         => /\ outcomes[k].data # None
                            /\ Contains(infrastructure_details'[envs[k]],
                                        outcomes[k].data[1])]_vars

\* C15: when the final infrastructure save of an onboard call fails, the
\* call returns the partial-success result (status 200, not an error) with
\* the failure detail and one outcome per infrastructure request; the
\* persisted infrastructure document is the same; and the devops outcome of
\* the call is "created" or "exists", the persisted DevOps collection
\* holding a record of the application (one with the application's id, or
\* one that the path value matches).
C15_PartialSuccess ==
    [][\A p \in Procs :
          (pc[p] = "onboard_save_infra" /\ onboard_save_infra_fails(p))
          => /\ response'.status = 200
             /\ response'.message = PartialSuccess
             /\ response'.error # ""
             /\ Len(response'.results.infrastructure)
                    = Len(request[p].environments)
             /\ infrastructure_details' = infrastructure_details
             /\ response'.results.devops \in {"created", "exists"}
             /\ \E i \in 1..Len(devops_details') :
                   \/ devops_details'[i].id = app[p][1].id
                   \/ devops_details'[i].id = request[p].applicationName
                   \/ devops_details'[i].applicationName
                          = request[p].applicationName]_vars

\* The identifier is the id or the applicationName of the record.
Matches(rec, identifier) ==
    rec.id = identifier \/ rec.applicationName = identifier

SomeMatch(records, identifier) ==
    \E i \in 1..Len(records) : Matches(records[i], identifier)

\* C16: get-profile returns 404 exactly when no application record matches
\* the identifier; otherwise it returns 200 with the matching application,
\* devops null exactly when no DevOps record matches, infrastructure null
\* exactly when the environment asked for is not a key or its collection
\* holds no matching record, and the environment asked for; and none of its
\* steps changes a persisted collection.  (Requests are served one at a
\* time, so the collections at the return are those the call loaded.)
C16_ProfileBestEffort ==
    [][\A p \in Procs :
          /\ \A identifier \in Identifiers : \A query \in ProfileQueries :
                get_complete_profile_load_app(p, identifier, query)
                => /\ UNCHANGED files
                   /\ IF SomeMatch(application_details, identifier)
                      THEN pc'[p] = "get_complete_profile_load_devops"
                      ELSE /\ pc'[p] = "idle"
                           /\ response' = NotFound("get_complete_profile")
          /\ get_complete_profile_load_devops(p) => UNCHANGED files
          /\ get_complete_profile_load_infra(p)
             => LET identifier == request[p].applicationName
                    environment == request[p].environments[1]
                IN /\ UNCHANGED files
                   /\ pc'[p] = "idle"
                   /\ response'.op = "get_complete_profile"
                   /\ response'.status = 200
                   /\ Matches(response'.application, identifier)
                   /\ response'.devops = None
                      <=> ~SomeMatch(devops_details, identifier)
                   /\ response'.infrastructure = None
                      <=> \/ environment \notin DOMAIN infrastructure_details
                          \/ ~SomeMatch(infrastructure_details[environment],
                                        identifier)
                   /\ response'.environment = environment]_vars

\* A profile has been returned for an application that has a DevOps record,
\* for an environment that is not a key while the default environment holds
\* a record of the application: devops is not null, infrastructure is.
C16_Witness ==
    /\ response.op = "get_complete_profile"
    /\ response.status = 200
    /\ response.environment \notin DOMAIN infrastructure_details
    /\ response.devops # None
    /\ response.infrastructure = None
    /\ SomeMatch(infrastructure_details[DefaultEnvironment],
                 response.application.applicationName)

\* The environments whose persisted collection holds a record that the
\* identifier matches.
MatchingEnvironments(identifier) ==
    {e \in DOMAIN infrastructure_details :
        SomeMatch(infrastructure_details[e], identifier)}

\* rec is the first record of records that the identifier matches.
IsFirstMatch(records, identifier, rec) ==
    \E i \in 1..Len(records) :
        /\ records[i] = rec
        /\ Matches(rec, identifier)
        /\ \A j \in 1..(i - 1) : ~Matches(records[j], identifier)

\* C17: what get-infrastructure-across-environments returned last is, for
\* the persisted infrastructure document, 404 when no environment holds a
\* record matching the identifier (whether or not the application exists),
\* and otherwise the mapping whose keys are exactly the environments that
\* hold a match, each to the first matching record of its collection.
C17_MatchingEnvironmentsOnly ==
    response.op = "get_app_infrastructure_all_environments"
    => IF response.status = 404
       THEN MatchingEnvironments(response.detail) = {}
       ELSE /\ response.status = 200
            /\ MatchingEnvironments(response.applicationName) # {}
            /\ DOMAIN response.environments
                   = MatchingEnvironments(response.applicationName)
            /\ \A e \in DOMAIN response.environments :
                  IsFirstMatch(infrastructure_details[e],
                               response.applicationName,
                               response.environments[e])

\* The mapping returned has one environment and not the other, and the
\* collection of that environment holds two records that match, the one
\* returned and a later one.
C17_Witness ==
    /\ response.op = "get_app_infrastructure_all_environments"
    /\ response.status = 200
    /\ DOMAIN response.environments # DOMAIN infrastructure_details
    /\ \E e \in DOMAIN response.environments :
          \E i, j \in 1..Len(infrastructure_details[e]) :
              /\ i < j
              /\ infrastructure_details[e][i] = response.environments[e]
              /\ Matches(infrastructure_details[e][j], response.applicationName)

\* The call returned 404 for the name of a stored application.
C17_WitnessNotFound ==
    /\ response.op = "get_app_infrastructure_all_environments"
    /\ response.status = 404
    /\ SomeMatch(application_details, response.detail)

\* C20: in every state reached by create-application, create-devops,
\* create-infrastructure, onboard and read calls served one at a time, the
\* profile that get-profile returned last has, in its devops field and in
\* its infrastructure field when they are not null, the id of its
\* application field.
C20_ProfileCoherence ==
    (response.op = "get_complete_profile" /\ response.status = 200)
    => /\ response.devops # None
          => response.devops[1].id = response.application.id
       /\ response.infrastructure # None
          => response.infrastructure[1].id = response.application.id

InfrastructureFailure(status) ==
    [op |-> "create_infrastructure_details", status |-> status]

\* C18: create-infrastructure returns 404 when no application matches, the
\* environment valid or not; then 400 when the environment is not a key,
\* a matching record or not; then 409 exactly when the collection of that
\* environment holds a matching record; and its save appends the new record
\* at the end of that environment's collection and changes no other
\* environment's collection, nor the Application or DevOps collection.
\* (Requests are served one at a time.)
C18_InfrastructureCheckOrder ==
    [][\A p \in Procs :
          /\ \A infra_request \in InfrastructureRequests :
                create_infrastructure_load_app(p, infra_request)
                => /\ UNCHANGED files
                   /\ IF SomeMatch(application_details,
                                   infra_request.applicationName)
                      THEN pc'[p] = "create_infrastructure_load_infra"
                      ELSE /\ pc'[p] = "idle"
                           /\ response' = InfrastructureFailure(404)
          /\ create_infrastructure_load_infra(p)
             => LET environment == request[p].environments[1]
                IN /\ UNCHANGED files
                   /\ IF environment \notin DOMAIN infrastructure_details
                      THEN /\ pc'[p] = "idle"
                           /\ response' = InfrastructureFailure(400)
                      ELSE IF SomeMatch(infrastructure_details[environment],
                                        request[p].applicationName)
                      THEN /\ pc'[p] = "idle"
                           /\ response' = InfrastructureFailure(409)
                      ELSE pc'[p] = "create_infrastructure_save"
          /\ create_infrastructure_save(p)
             => LET environment == request[p].environments[1]
                IN /\ response'.status = 200
                   /\ infrastructure_details'
                          = [infrastructure_details EXCEPT ![environment] =
                                Append(@, response'.infrastructure)]
                   /\ response'.infrastructure.applicationName
                          = request[p].applicationName
                   /\ application_details' = application_details
                   /\ devops_details' = devops_details]_vars

\* A create-infrastructure has succeeded: its record is the last of a
\* collection that held a record before, and the DevOps collection is not
\* empty.
C18_Witness ==
    /\ response.op = "create_infrastructure_details"
    /\ response.status = 200
    /\ LET records == infrastructure_details[response.environment]
       IN /\ Len(records) >= 2
          /\ records[Len(records)] = response.infrastructure
    /\ devops_details # <<>>

\* C19: find_app_by_id_or_name, given any list of records and any query,
\* returns the first record of the list whose id or whose applicationName
\* is the query, and None exactly when the list has no such record; the
\* list is the same after the call.
C19_FindFirstMatch ==
    [][\A identifier \in Identifiers :
          get_application_details(1, identifier)
          => /\ application_details' = application_details
             /\ response'.body = None
                <=> ~SomeMatch(application_details, identifier)
             /\ response'.body # None
                => IsFirstMatch(application_details, identifier,
                                response'.body[1])
             /\ response'.status = 404 <=> response'.body = None]_vars

\* The record returned is followed in the list by another record that the
\* identifier matches, one by its id and the other by its applicationName.
C19_Witness ==
    /\ response.op = "get_application_details"
    /\ response.status = 200
    /\ \E i, j \in 1..Len(application_details) :
          /\ i < j
          /\ application_details[i] = response.body[1]
          /\ application_details[i] # application_details[j]
          /\ application_details[i].id = response.identifier
          /\ application_details[j].applicationName = response.identifier

====
